---- MODULE Spec2Model ----
(***************************************************************************)
(* Model of the research orchestration of src/src/app/page.tsx (component  *)
(* Home): startResearch, stopResearch, the memory selection handlers, the  *)
(* asynchronous completions of the generation and persistence calls, and   *)
(* the pure helpers computeConfidence and the depth -> pass-count lookup.  *)
(*                                                                         *)
(* JavaScript runs every handler and every continuation of an await to the *)
(* next await without interruption, so one action is one such segment.     *)
(* Display-only state (progress, activeResultTab, history, the textarea    *)
(* height) is read by no handler and is left out.                          *)
(***************************************************************************)
EXTENDS Integers, Sequences, FiniteSets

VARIABLES
    query,            \* useState('')            page.tsx:183
    depth,            \* useState('standard')    page.tsx:186
    isResearching,    \* useState(false)         page.tsx:190
    currentPhase,     \* useState('')            page.tsx:191
    results,          \* useState([])            page.tsx:194
    memoryContexts,   \* useState([])            page.tsx:196 (ids of the loaded contexts)
    memoryEnabled,    \* useState(false)         page.tsx:197
    activeContextIds, \* useState(new Set())     page.tsx:198
    thoughts,         \* useState([])            page.tsx:199
    abortRef,         \* useRef(null)            page.tsx:202 (0 = null, r = the controller run r made)
    aborted,          \* the controllers whose signal is aborted
    mounted,          \* whether the mount effect's memory load has settled, page.tsx:205-208
    nRuns,            \* number of startResearch invocations that passed the entry guard
    runs,             \* per invocation: the locals of startResearch and its position
    obs,              \* per invocation: its history while it is active and in the state
                      \* it ended in (observation only, read by no program step)
    fn                \* harness of the pure functions (idle under Spec)

vars == <<query, depth, isResearching, currentPhase, results, memoryContexts,
          memoryEnabled, activeContextIds, thoughts, abortRef, aborted, mounted,
          nRuns, runs, obs, fn>>

uiVars == <<query, depth, memoryContexts, memoryEnabled, activeContextIds, mounted>>

----------------------------------------------------------------------------
(* Bounds *)

\* startResearch invocations per behaviour under Spec
MaxRuns == 2
\* startResearch invocations per behaviour under SpecOverlap
MaxOverlapRuns == 3
\* only the depth tiers with at most this many passes are selected under Spec
MaxPasses == 3
\* memory contexts the persistence service can hold
MaxCtx == 1
\* startResearch invocations per behaviour when the memory panel is in use
MaxMemRuns == 1
\* startResearch invocations per behaviour under SpecPrompt
MaxPromptRuns == 1
\* startResearch invocations per behaviour under SpecSelect
MaxSelectRuns == 1
\* startResearch invocations per behaviour under SpecPersist
MaxPersistRuns == 1
\* startResearch invocations per behaviour under SpecStop
MaxStopRuns == 1
\* startResearch invocations per behaviour under SpecScore
MaxScoreRuns == 1
\* startResearch invocations per behaviour under SpecLive
MaxLiveRuns == 1
\* startResearch invocations per behaviour under SpecReload
MaxReloadRuns == 2
\* startResearch invocations per behaviour under SpecEntry
MaxEntryRuns == 1
\* memory contexts the persistence service can hold under SpecToggle
MaxToggleCtx == 6
\* longest repetition of one token in an answer handed to computeConfidence
MaxRepeat == 500
\* largest completed-pass count and document count handed to computeConfidence
MaxCount == 8

RunIds == 1..(IF MaxRuns > MaxOverlapRuns THEN MaxRuns ELSE MaxOverlapRuns)
CtxIds == 1..MaxCtx
ToggleCtxIds == 1..MaxToggleCtx

Min(a, b) == IF a < b THEN a ELSE b
Max(a, b) == IF a > b THEN a ELSE b

----------------------------------------------------------------------------
(* Text.  A text is a sequence of segments [tok, n]: the token tok repeated *)
(* n times.  Tokens are literal substrings; "a" is a character that is no   *)
(* space, '#' or '|', and "a " is that character followed by a space.       *)

Seg(tok, n) == [tok |-> tok, n |-> n]

EvidencePhrases == {"according to", "research shows", "evidence suggests",
                    "data shows", "Data Shows"}

\* number of ' ' characters in one token
SpacesIn(tok) ==
    IF tok = " " \/ tok = "a " THEN 1
    ELSE IF tok \in EvidencePhrases THEN 1
    ELSE 0

\* matches of /according to|research shows|evidence suggests|data shows/gi in one token
MatchesIn(tok) == IF tok \in EvidencePhrases THEN 1 ELSE 0

RECURSIVE CountSpaces(_, _)
CountSpaces(text, k) ==
    IF k = 0 THEN 0
    ELSE text[k].n * SpacesIn(text[k].tok) + CountSpaces(text, k - 1)

RECURSIVE CountMatches(_, _)
CountMatches(text, k) ==
    IF k = 0 THEN 0
    ELSE text[k].n * MatchesIn(text[k].tok) + CountMatches(text, k - 1)

\* answer.split(' ').length: one more than the number of separators
SplitLength(text) == 1 + CountSpaces(text, Len(text))

\* (answer.match(/.../gi) || []).length
EvidenceCount(text) == CountMatches(text, Len(text))

\* answer.includes('##') || answer.includes('|')
HasMarkup(text) ==
    \E k \in 1..Len(text) :
        \/ text[k].tok = "|" /\ text[k].n >= 1
        \/ text[k].tok = "#" /\ text[k].n >= 2
        \/ text[k].tok = "##" /\ text[k].n >= 1

\* number of characters of one token
TokLen(tok) ==
    CASE tok = "a " -> 2
      [] tok = "##" -> 2
      [] tok = "according to" -> 12
      [] tok = "research shows" -> 14
      [] tok = "evidence suggests" -> 17
      [] tok \in {"data shows", "Data Shows"} -> 10
      [] OTHER -> 1

\* the first c characters of a token longer than c; "?" is one character of a
\* cut evidence phrase
FirstChars(tok, c) ==
    CASE tok = "a " -> <<Seg("a", c)>>
      [] tok = "##" -> <<Seg("#", c)>>
      [] OTHER -> <<Seg("?", c)>>

\* the first n characters of text from its segment k on
RECURSIVE SubstringFrom(_, _, _)
SubstringFrom(text, k, n) ==
    IF n <= 0 \/ k > Len(text) THEN <<>>
    ELSE LET len == TokLen(text[k].tok)
             whole == Min(text[k].n, n \div len)
             rest == n - whole * len
         IN  (IF whole > 0 THEN <<Seg(text[k].tok, whole)>> ELSE <<>>)
             \o (IF whole = text[k].n THEN SubstringFrom(text, k + 1, rest)
                 ELSE IF rest > 0 THEN FirstChars(text[k].tok, rest)
                 ELSE <<>>)

\* text.substring(0, n)
Substring(text, n) == SubstringFrom(text, 1, n)

\* the clamp with its upper limit lost
ClampNoUpper(s240) == Max(22, (s240 + 120) \div 240)

\* Math.min(97, Math.max(22, Math.round(s))), s given in 240ths
Clamp(s240) == Min(97, Max(22, (s240 + 120) \div 240))

\* computeConfidence with 3 added for hasMem
computeConfidenceBonus3(answer, numPasses, docChunks, hasMem) ==
    Clamp(45 * 240
          + Min(15 * 240, 2 * SplitLength(answer))
          + Min(18 * 240, 840 * numPasses)
          + Min(12 * 240, 480 * docChunks)
          + (IF hasMem THEN 3 * 240 ELSE 0)
          + Min(10 * 240, 360 * EvidenceCount(answer))
          + (IF HasMarkup(answer) THEN 4 * 240 ELSE 0))

\* computeConfidence without the base of 45
computeConfidenceNoBase(answer, numPasses, docChunks, hasMem) ==
    Clamp(Min(15 * 240, 2 * SplitLength(answer))
          + Min(18 * 240, 840 * numPasses)
          + Min(12 * 240, 480 * docChunks)
          + (IF hasMem THEN 5 * 240 ELSE 0)
          + Min(10 * 240, 360 * EvidenceCount(answer))
          + (IF HasMarkup(answer) THEN 4 * 240 ELSE 0))

\* computeConfidence; the sum is kept in 240ths so that /120, *3.5 and *1.5 stay
\* exact, and Math.round(s) is floor(s + 0.5)
computeConfidence(answer, numPasses, docChunks, hasMem) ==
    LET s0 == 45 * 240
        s1 == s0 + Min(15 * 240, 2 * SplitLength(answer))
        s2 == s1 + Min(18 * 240, 840 * numPasses)
        s3 == s2 + Min(12 * 240, 480 * docChunks)
        s4 == s3 + (IF hasMem THEN 5 * 240 ELSE 0)
        s5 == s4 + Min(10 * 240, 360 * EvidenceCount(answer))
        s6 == s5 + (IF HasMarkup(answer) THEN 4 * 240 ELSE 0)
    IN  Clamp(s6)

----------------------------------------------------------------------------
(* Depth tier -> pass count, page.tsx:238 *)

\* the options of the depth select, page.tsx:449
DepthOptions == {"quick", "standard", "deep", "exhaustive"}

\* property names every object literal inherits from Object.prototype
ObjectPrototypeKeys == {"constructor", "toString", "valueOf", "hasOwnProperty",
                        "__proto__"}

Num(n) == [kind |-> "number", n |-> n]
Undefined == [kind |-> "undefined", n |-> 0]
Inherited == [kind |-> "object", n |-> 0]

\* { quick: 1, standard: 3, deep: 5, exhaustive: 8 }[depth]
PassTable(d) ==
    CASE d = "quick" -> Num(1)
      [] d = "standard" -> Num(3)
      [] d = "deep" -> Num(5)
      [] d = "exhaustive" -> Num(8)
      [] d \in ObjectPrototypeKeys -> Inherited
      [] OTHER -> Undefined

Truthy(v) == v.kind = "object" \/ (v.kind = "number" /\ v.n # 0)

\* ... [depth] || 3
ResolveNumPasses(d) == IF Truthy(PassTable(d)) THEN PassTable(d) ELSE Num(3)

\* the loop condition stopping one pass early
LoopCondShort(i, np) == np.kind = "number" /\ i < np.n - 1

\* the loop condition running one pass more
LoopCondInclusive(i, np) == np.kind = "number" /\ i <= np.n

\* i < numPasses: a value that is no number converts to NaN and compares false
LoopCond(i, np) == np.kind = "number" /\ i < np.n

----------------------------------------------------------------------------
(* The component's state and the locals of one startResearch invocation *)

\* the query texts typed into the textarea: empty, a question
Queries == {"", "q"}

\* a query of white space only, typed under SpecEntry
BlankQueries == {" "}

\* query.trim()
Trim(q) == IF q = " " THEN "" ELSE q

\* what a generation call can return (d.result): the empty text, an answer
GenOutputs == {<<>>, <<Seg("a", 1)>>}

SelectableDepths == {d \in DepthOptions : ResolveNumPasses(d).n <= MaxPasses}

PASS_LABELS == <<"INITIAL ANALYSIS", "DEEP INVESTIGATION", "CRITICAL EVALUATION",
                 "CROSS-VALIDATION", "EXPERT SYNTHESIS", "ADVERSARIAL REVIEW",
                 "DOMAIN EXPANSION", "FINAL REFINEMENT">>

\* PASS_LABELS[Math.min(i, PASS_LABELS.length - 1)], i counted from 0
PassLabel(i) == PASS_LABELS[Min(i, Len(PASS_LABELS) - 1) + 1]

\* one entry of thoughts; run names the invocation that appended it
Thought(type, n, r) == [type |-> type, n |-> n, run |-> r]

\* c.answer.substring(0, 600), page.tsx:226
MemoryExcerptLength == 600
\* r.substring(0, 500), page.tsx:263
PassExcerptLength == 500

\* the stored query and answer of the memory context with this id: the first
\* context's answer is longer than the excerpt, the next one's is shorter
CtxQuery(id) == <<Seg("a", MemoryExcerptLength + id)>>
CtxAnswer(id) == <<Seg("a", 1), Seg("a ", (MemoryExcerptLength \div 2) + 1 - id)>>

\* the entry of one context with its answer cut to the pass excerpt's length
MemoryEntryCutShort(c) ==
    [id |-> c, query |-> CtxQuery(c), answer |-> Substring(CtxAnswer(c), PassExcerptLength)]

\* `[Context i]\nPrevious Query: ${c.query}\nPrevious Answer: ${c.answer.substring(0, 600)}...`
MemoryEntry(c) ==
    [id |-> c, query |-> CtxQuery(c), answer |-> Substring(CtxAnswer(c), MemoryExcerptLength)]

\* buildMemorySection: the entries of the selected contexts, {} standing for
\* the empty text
buildMemorySection ==
    IF activeContextIds = {} THEN {}
    ELSE {MemoryEntry(c) : c \in {c \in memoryContexts : c \in activeContextIds}}

\* no call is awaited
NoPrompt == [kind |-> "none", query |-> "", mem |-> {}, prev |-> <<>>]

\* the previous-passes block without the cut
PrevCtxUncut(passResults) == passResults

\* passResults.map((r, j) => `[Pass ${j + 1}]: ${r.substring(0, 500)}...`); the
\* block is left out when passResults is empty
PrevCtx(passResults) ==
    [j \in 1..Len(passResults) |-> Substring(passResults[j], PassExcerptLength)]

\* the memory block of a prompt, rebuilt from the selection at dispatch
PromptMemoryRebuilt(run, current) == current

\* ${memSection}: the block the invocation built at its start
PromptMemory(run, current) == run.memSection

\* usr of a pass, lines 262-265
PassPrompt(run, current) ==
    [kind |-> "pass", query |-> run.query, mem |-> PromptMemory(run, current),
     prev |-> PrevCtx(run.passResults)]

\* usr of the synthesis call, line 280: every pass output in full
SynthPrompt(run, current) ==
    [kind |-> "synth", query |-> run.query, mem |-> PromptMemory(run, current),
     prev |-> run.passResults]

IdleRun ==
    [pc |-> "idle", numPasses |-> Num(0), memSection |-> {}, hasMem |-> FALSE,
     memoryEnabled |-> FALSE, query |-> "", depth |-> "", passResults |-> <<>>,
     i |-> 0, sig |-> 0, finalAnswer |-> <<>>, usr |-> NoPrompt]

\* the invocation has returned; its locals are gone
DoneRun == [IdleRun EXCEPT !.pc = "done"]

NoObs ==
    [numPasses |-> 0,        \* the pass count the invocation resolved
     loopEnd |-> "none",     \* "clean" / "aborted": the signal polled when the pass loop ended
     completed |-> 0,        \* passResults.length when the pass loop ended
     lastPass |-> <<>>,      \* the last completed pass's output when the pass loop ended
     synth |-> FALSE,        \* a synthesis call was dispatched
     stop |-> "none",        \* where the first stopResearch call found it: "loop", "synth", "persist"
     failed |-> FALSE,       \* a generation call failed (no cancellation)
     callAfterFail |-> FALSE,
     finalEmpty |-> FALSE,   \* the final answer was the empty text
     nPersistFailed |-> 0,   \* persistence calls of the invocation that failed
     nCalls |-> 0,           \* generation calls the invocation dispatched
     nReturned |-> 0,        \* generation calls of the invocation that returned
     stopPasses |-> 0,       \* passResults.length when the first stopResearch call found it
     late |-> FALSE,         \* it appended an event or dispatched a call after a
                             \* stopResearch call had found it in its loop or synthesis
     nSaveHistory |-> 0,     \* apiSaveHistory calls the invocation made
     nSaveMemory |-> 0,      \* apiSaveMemory calls the invocation made
     memAtStart |-> FALSE,   \* memoryEnabled when the invocation started
     nResults |-> 0, nErrors |-> 0, nComplete |-> 0]

\* the history of an invocation is dropped in the step after the one it ended in
ExpireObs == [r \in RunIds |-> IF runs[r].pc = "done" THEN NoObs ELSE obs[r]]

Active(r) == runs[r].pc \notin {"idle", "done"}
InFlight(r) == runs[r].pc \in {"pass", "synth"}

FnIdle ==
    [op |-> "none", answer |-> <<>>, numPasses |-> 0, docChunks |-> 0,
     hasMem |-> FALSE, depth |-> "", done |-> FALSE, conf |-> 0, passes |-> Num(0),
     \* of a direct call of stopResearch: it threw; no invocation was active;
     \* results and thoughts were left as they were; a second call right after
     \* it would leave the state of the first
     threw |-> FALSE, idle |-> FALSE, kept |-> FALSE, again |-> FALSE,
     \* of a call of startResearch that returned at its entry guard: the query
     \* and isResearching it saw
     query |-> "", researching |-> FALSE]

TypeOK ==
    /\ query \in Queries \cup BlankQueries
    /\ depth \in DepthOptions
    /\ isResearching \in BOOLEAN
    /\ memoryEnabled \in BOOLEAN
    /\ memoryContexts \subseteq CtxIds \cup ToggleCtxIds
    /\ activeContextIds \subseteq CtxIds \cup ToggleCtxIds
    /\ abortRef \in {0} \cup RunIds
    /\ aborted \subseteq RunIds
    /\ nRuns \in {0} \cup RunIds
    /\ DOMAIN runs = RunIds
    /\ DOMAIN obs = RunIds

Init ==
    /\ query = ""
    /\ depth = "standard"
    /\ isResearching = FALSE
    /\ currentPhase = ""
    /\ results = <<>>
    /\ memoryContexts = {}
    /\ memoryEnabled = FALSE
    /\ activeContextIds = {}
    /\ thoughts = <<>>
    /\ abortRef = 0
    /\ aborted = {}
    /\ mounted = FALSE
    /\ nRuns = 0
    /\ runs = [r \in RunIds |-> IdleRun]
    /\ obs = [r \in RunIds |-> NoObs]
    /\ fn = FnIdle

----------------------------------------------------------------------------
(* startResearch, one synchronous segment at a time.  A segment works on a  *)
(* record st: the invocation's locals (run), its history (ob) and the       *)
(* component state it writes.                                               *)

\* abortRef.current.signal.aborted
SignalAborted(st) == st.abortRef \in st.aborted

\* setThoughts(prev => [...prev, {type, detail, time}])
addThought(st, type, n, r) ==
    [st EXCEPT !.thoughts = Append(@, Thought(type, n, r)),
               !.ob.late = @ \/ st.ob.stop \in {"loop", "synth"}]

\* the finally block without setCurrentPhase('')
FinallyKeepsPhase(st) ==
    [st EXCEPT !.isResearching = FALSE, !.run = DoneRun]

\* finally: setIsResearching(false); setCurrentPhase('')
Finally(st) ==
    [st EXCEPT !.isResearching = FALSE, !.currentPhase = "", !.run = DoneRun]

\* callResearchAPI(..., abortRef.current.signal) is awaited
Dispatch(st, pc) ==
    [st EXCEPT !.run.pc = pc, !.run.sig = st.abortRef,
               !.run.usr = IF pc = "pass" THEN PassPrompt(st.run, buildMemorySection)
                           ELSE SynthPrompt(st.run, buildMemorySection),
               !.ob.callAfterFail = @ \/ st.ob.failed,
               !.ob.nCalls = @ + 1,
               !.ob.late = @ \/ st.ob.stop \in {"loop", "synth"}]

\* line 274 with both comparisons off by one
ShouldSynthesizeOffByOne(isAborted, numPasses, completed) ==
    ~isAborted /\ numPasses.kind = "number" /\ numPasses.n >= 1 /\ completed >= 1

\* the condition of line 274
ShouldSynthesize(isAborted, numPasses, completed) ==
    ~isAborted /\ numPasses.kind = "number" /\ numPasses.n > 1 /\ completed > 1

\* line 289 without the test of the answer
ShouldScoreAnyAnswer(isAborted, finalAnswer) == ~isAborted

\* line 289 without the test of the signal
ShouldScoreIgnoringAbort(isAborted, finalAnswer) == finalAnswer # <<>>

\* line 289 with the negation of the signal test lost
ShouldScoreWhenAborted(isAborted, finalAnswer) == isAborted /\ finalAnswer # <<>>

\* the condition of line 289
ShouldScore(isAborted, finalAnswer) == ~isAborted /\ finalAnswer # <<>>

\* line 325 with the comparison inverted
CatchReportsInverted(errName) == errName = "AbortError"

\* err.name !== 'AbortError'
CatchReports(errName) == errName # "AbortError"

\* catch (err) { ... } finally { ... }
Catch(st, errName, r) ==
    IF CatchReports(errName)
    THEN Finally([addThought(st, "ERROR", 0, r) EXCEPT !.ob.nErrors = @ + 1])
    ELSE Finally(st)

\* passResults[passResults.length - 1] || ''
LastPass(passResults) ==
    IF Len(passResults) = 0 THEN <<>> ELSE passResults[Len(passResults)]

\* the synthesis call counted as one more pass
CompletedPassesWithSynthesis(passResults) == Len(passResults) + 1

\* passResults.length, the completed-pass count handed to computeConfidence
CompletedPasses(passResults) == Len(passResults)

\* lines 289-307: score, emit COMPLETE, publish the result, start persisting
Score(st, r) ==
    IF ShouldScore(SignalAborted(st), st.run.finalAnswer)
    THEN LET confidence == computeConfidence(st.run.finalAnswer,
                                             CompletedPasses(st.run.passResults), 0,
                                             st.run.hasMem)
             resultItem == [query |-> st.run.query, answer |-> st.run.finalAnswer,
                            confidence |-> confidence, depth |-> st.run.depth,
                            run |-> r]
             st1 == addThought(st, "COMPLETE", confidence, r)
         IN  [st1 EXCEPT !.results = <<resultItem>> \o @,
                         !.run.pc = "saveHistory",
                         !.run.passResults = <<>>,  \* not read again
                         !.run.i = 0,
                         !.run.sig = 0,
                         !.run.usr = NoPrompt,
                         !.ob.nResults = @ + 1,
                         !.ob.nComplete = @ + 1,
                         !.ob.nSaveHistory = @ + 1]
    ELSE Finally([st EXCEPT !.ob.finalEmpty = (st.run.finalAnswer = <<>>)])

\* lines 274-287: synthesize, or take the last pass
AfterLoop(st, r) ==
    LET isAborted == SignalAborted(st)
        n == Len(st.run.passResults)
        st1 == [st EXCEPT !.ob.loopEnd = IF isAborted THEN "aborted" ELSE "clean",
                          !.ob.completed = n,
                          !.ob.lastPass = LastPass(st.run.passResults)]
    IN  IF ShouldSynthesize(isAborted, st.run.numPasses, n)
        THEN LET st2 == [st1 EXCEPT !.currentPhase = "Synthesizing...",
                                    !.ob.synth = TRUE]
             IN  Dispatch(addThought(st2, "SYNTHESIS", n, r), "synth")
        ELSE Score([st1 EXCEPT !.run.finalAnswer = LastPass(st.run.passResults)], r)

\* lines 253-269: the head of the pass loop for index st.run.i
LoopHead(st, r) ==
    IF LoopCond(st.run.i, st.run.numPasses) /\ ~SignalAborted(st)
    THEN LET st1 == [st EXCEPT !.currentPhase = "Pass"]
         IN  Dispatch(addThought(st1, PassLabel(st.run.i), st.run.i + 1, r), "pass")
    ELSE AfterLoop(st, r)

\* the component state a segment of invocation r starts from
Segment(r) ==
    [run |-> runs[r], ob |-> obs[r], thoughts |-> thoughts, results |-> results,
     isResearching |-> isResearching, currentPhase |-> currentPhase,
     abortRef |-> abortRef, aborted |-> aborted]

\* write a finished segment back
Commit(st, r) ==
    /\ runs' = [runs EXCEPT ![r] = st.run]
    /\ obs' = [ExpireObs EXCEPT ![r] = st.ob]
    /\ thoughts' = st.thoughts
    /\ results' = st.results
    /\ isResearching' = st.isResearching
    /\ currentPhase' = st.currentPhase
    /\ abortRef' = st.abortRef
    /\ aborted' = st.aborted

\* the entry guard without the trim
EntryGuardNoTrim(q, researching) == q # "" /\ ~researching

\* line 231: startResearch goes on when !(!query.trim() || isResearching)
EntryGuard(q, researching) == Trim(q) # "" /\ ~researching

\* abortRef.current = new AbortController(): the controller invocation r
\* makes replaces whatever the ref held
NewAbortController(ref, r) == r

\* lines 230-269: the entry guard, the set-up and the first pass's dispatch;
\* at most maxRuns invocations are followed
StartResearchUpTo(maxRuns) ==
    /\ EntryGuard(query, isResearching)
    /\ nRuns < maxRuns
    /\ LET r == nRuns + 1
           numPasses == ResolveNumPasses(depth)
           hasMem == activeContextIds # {}
           run0 == [IdleRun EXCEPT !.pc = "init",
                                   !.numPasses = numPasses,
                                   !.memSection = buildMemorySection,
                                   !.hasMem = hasMem,
                                   !.memoryEnabled = memoryEnabled,
                                   !.query = query,
                                   !.depth = depth]
           st0 == [Segment(r) EXCEPT
                      !.run = run0,
                      !.ob = [NoObs EXCEPT !.numPasses = numPasses.n,
                                           !.memAtStart = memoryEnabled],
                      !.isResearching = TRUE,
                      !.thoughts = <<>>,
                      !.abortRef = NewAbortController(abortRef, r)]
           st1 == addThought(st0, "INITIALIZE", numPasses.n, r)
           st2 == IF hasMem
                  THEN addThought(st1, "MEMORY RETRIEVAL", Cardinality(activeContextIds), r)
                  ELSE st1
       IN  Commit(LoopHead(st2, r), r)
    /\ nRuns' = nRuns + 1
    /\ UNCHANGED <<uiVars, fn>>

StartResearch == StartResearchUpTo(MaxRuns)

\* line 231: startResearch called (Ctrl+Enter in the textarea, page.tsx:534)
\* with the entry guard failing returns at once
StartResearchBlocked ==
    /\ ~EntryGuard(query, isResearching)
    /\ fn' = [FnIdle EXCEPT !.op = "startResearch", !.done = TRUE,
                            !.query = query, !.researching = isResearching]
    /\ obs' = ExpireObs
    /\ UNCHANGED <<uiVars, isResearching, currentPhase, results, thoughts,
                   abortRef, aborted, nRuns, runs>>

\* lines 270-272 and on: pass i's call returned out
PassReturn(r, out) ==
    /\ runs[r].pc = "pass"
    /\ LET st0 == [Segment(r) EXCEPT !.run.passResults = Append(@, out),
                                     !.ob.nReturned = @ + 1]
           st1 == addThought(st0, "PASS COMPLETE", st0.run.i + 1, r)
       IN  Commit(LoopHead([st1 EXCEPT !.run.i = @ + 1], r), r)
    /\ UNCHANGED <<uiVars, nRuns, fn>>

\* lines 282-284 and on: the synthesis call returned out
SynthReturn(r, out) ==
    /\ runs[r].pc = "synth"
    /\ Commit(Score([Segment(r) EXCEPT !.run.finalAnswer = out,
                                       !.ob.nReturned = @ + 1], r), r)
    /\ UNCHANGED <<uiVars, nRuns, fn>>

\* lines 43-46: the in-flight generation call failed (no cancellation)
GenFail(r) ==
    /\ InFlight(r)
    /\ Commit(Catch([Segment(r) EXCEPT !.ob.failed = TRUE], "Error", r), r)
    /\ UNCHANGED <<uiVars, nRuns, fn>>

----------------------------------------------------------------------------
(* stopResearch, page.tsx:335-340 *)

\* the segment of invocation r in world w, and its write-back
SegmentIn(w, r) ==
    [run |-> w.runs[r], ob |-> w.obs[r], thoughts |-> w.thoughts,
     results |-> w.results, isResearching |-> w.isResearching,
     currentPhase |-> w.currentPhase, abortRef |-> w.abortRef,
     aborted |-> w.aborted]

PutSegment(w, st, r) ==
    [w EXCEPT !.runs[r] = st.run, !.obs[r] = st.ob, !.thoughts = st.thoughts,
              !.results = st.results, !.isResearching = st.isResearching,
              !.currentPhase = st.currentPhase]

\* fetch rejects every call whose signal is aborted with an AbortError; the
\* awaiting invocations resume in the microtasks that follow the click handler,
\* before any other event is handled
RECURSIVE RejectAborted(_, _)
RejectAborted(w, r) ==
    IF r \notin RunIds THEN w
    ELSE IF w.runs[r].pc \in {"pass", "synth"} /\ w.runs[r].sig \in w.aborted
         THEN RejectAborted(PutSegment(w, Catch(SegmentIn(w, r), "AbortError", r), r),
                            r + 1)
         ELSE RejectAborted(w, r + 1)

\* history: which invocations a stopResearch call found active, and where
NoteStop(ob, run) ==
    IF run.pc \in {"idle", "done"} \/ ob.stop # "none" THEN ob
    ELSE [ob EXCEPT !.stop = CASE run.pc = "pass" -> "loop"
                               [] run.pc = "synth" -> "synth"
                               [] OTHER -> "persist",
                    !.stopPasses = Len(run.passResults)]

\* calling member abort of ref, with or without optional chaining: whether the
\* call throws (ref = 0 is null)
OptionalCallThrows(ref, optional) == ref = 0 /\ ~optional

\* abortRef.current.abort(), without the optional chaining
AbortThrowsUnchained(ref) == OptionalCallThrows(ref, FALSE)

\* abortRef.current?.abort(): whether it throws
AbortThrows(ref) == OptionalCallThrows(ref, TRUE)

\* abortRef.current?.abort(): the aborted controllers after it
OptionalAbort(ref, ab) == IF ref = 0 THEN ab ELSE ab \cup {ref}

\* the state stopResearch works on
StopWorld ==
    [runs |-> runs, obs |-> ExpireObs, thoughts |-> thoughts, results |-> results,
     isResearching |-> isResearching, currentPhase |-> currentPhase,
     abortRef |-> abortRef, aborted |-> aborted]

\* stopResearch from state w, with the continuations its abort resumes
stopResearch(w) ==
    RejectAborted([w EXCEPT !.obs = [r \in RunIds |-> NoteStop(w.obs[r], w.runs[r])],
                            !.isResearching = FALSE,
                            !.currentPhase = "",
                            !.aborted = OptionalAbort(w.abortRef, w.aborted)], 1)

\* the state without the histories
ProgramState(w) == [w EXCEPT !.obs = [r \in RunIds |-> NoObs]]

\* the Stop button is rendered only while isResearching (page.tsx:536)
StopResearch ==
    /\ isResearching
    /\ LET w == stopResearch(StopWorld)
       IN  /\ runs' = w.runs
           /\ obs' = w.obs
           /\ thoughts' = w.thoughts
           /\ results' = w.results
           /\ isResearching' = w.isResearching
           /\ currentPhase' = w.currentPhase
           /\ aborted' = w.aborted
    /\ UNCHANGED <<abortRef, uiVars, nRuns, fn>>

\* stopResearch called as a function, whatever the page renders; a throw of its
\* first statement leaves the state as it was
StopResearchCall ==
    /\ LET threw == AbortThrows(abortRef)
           w == IF threw THEN StopWorld ELSE stopResearch(StopWorld)
       IN  /\ runs' = w.runs
           /\ obs' = w.obs
           /\ thoughts' = w.thoughts
           /\ results' = w.results
           /\ isResearching' = w.isResearching
           /\ currentPhase' = w.currentPhase
           /\ aborted' = w.aborted
           /\ fn' = [FnIdle EXCEPT
                        !.op = "stopResearch",
                        !.done = TRUE,
                        !.threw = threw,
                        !.idle = \A r \in RunIds : ~Active(r),
                        !.kept = (w.results = results /\ w.thoughts = thoughts),
                        !.again = (~threw /\ ~AbortThrows(w.abortRef) /\
                                   ProgramState(stopResearch(w)) = ProgramState(w))]
    /\ UNCHANGED <<abortRef, uiVars, nRuns>>

----------------------------------------------------------------------------
(* Persistence after a result, page.tsx:309-323.  A failed save or load is  *)
(* caught where it is awaited.                                              *)

\* await p.catch(h): the awaited promise resolves when p resolves or h takes
\* the rejection; without a handler the rejection is thrown at the await
Settles(ok, hasCatch) == ok \/ hasCatch

\* a persistence call awaited without its .catch
PersistSettlesUncaught(ok) == Settles(ok, FALSE)

\* lines 310, 312, 313, 316: every persistence call is awaited with a .catch
PersistSettles(ok) == Settles(ok, TRUE)

\* the continuation of a persistence await: on to pc, or into the catch block
PersistStep(st, ok, pc, r) ==
    LET st1 == [st EXCEPT !.ob.nPersistFailed = IF ok THEN @ ELSE @ + 1]
    IN  IF PersistSettles(ok)
        THEN (IF pc = "done" THEN Finally(st1)
              ELSE [st1 EXCEPT !.run.pc = pc,
                               !.ob.nSaveMemory = IF pc = "saveMemory" THEN @ + 1 ELSE @])
        ELSE Catch(st1, "Error", r)

\* memoryEnabled read from the state at the time of the test
MemoryEnabledNow(run, current) == current

\* if (memoryEnabled), line 311: the value in the closure of the invocation,
\* that of the render in which it started
MemoryEnabledSeen(run, current) == run.memoryEnabled

\* await apiSaveHistory(resultItem).catch(console.error)
SaveHistoryReturn(r, ok) ==
    /\ runs[r].pc = "saveHistory"
    /\ Commit(PersistStep(Segment(r), ok,
                          IF MemoryEnabledSeen(runs[r], memoryEnabled)
                          THEN "saveMemory" ELSE "loadHistory",
                          r), r)
    /\ UNCHANGED <<uiVars, nRuns, fn>>

\* await apiSaveMemory({...}).catch(console.error)
SaveMemoryReturn(r, ok) ==
    /\ runs[r].pc = "saveMemory"
    /\ Commit(PersistStep(Segment(r), ok, "loadMemory", r), r)
    /\ UNCHANGED <<uiVars, nRuns, fn>>

\* const newMem = await apiLoadMemory().catch(() => []); setMemoryContexts(newMem)
LoadMemoryReturn(r, ok, loaded) ==
    /\ runs[r].pc = "loadMemory"
    /\ memoryContexts' = IF PersistSettles(ok)
                         THEN (IF ok THEN loaded ELSE {})
                         ELSE memoryContexts
    /\ Commit(PersistStep(Segment(r), ok, "loadHistory", r), r)
    /\ UNCHANGED <<query, depth, memoryEnabled, activeContextIds, mounted,
                   nRuns, fn>>

\* const newHist = await apiLoadHistory().catch(() => []); ... setQuery('');
\* then the finally block
LoadHistoryReturn(r, ok) ==
    /\ runs[r].pc = "loadHistory"
    /\ query' = IF PersistSettles(ok) THEN "" ELSE query
    /\ Commit(PersistStep(Segment(r), ok, "done", r), r)
    /\ UNCHANGED <<depth, memoryContexts, memoryEnabled, activeContextIds, mounted,
                   nRuns, fn>>

----------------------------------------------------------------------------
(* The other handlers of the page *)

\* apiLoadMemory().then(setMemoryContexts).catch(console.error), page.tsx:207
MountMemoryLoaded(ok, loaded) ==
    /\ ~mounted
    /\ mounted' = TRUE
    /\ memoryContexts' = IF ok THEN loaded ELSE memoryContexts
    /\ UNCHANGED <<query, depth, memoryEnabled, activeContextIds, isResearching,
                   currentPhase, results, thoughts, abortRef, aborted, nRuns,
                   runs, fn>>
    /\ obs' = ExpireObs

\* the textarea's onChange and the hint chips, page.tsx:534, 559
SetQuery(q) ==
    /\ q # query
    /\ query' = q
    /\ UNCHANGED <<depth, memoryContexts, memoryEnabled, activeContextIds, mounted,
                   isResearching, currentPhase, results, thoughts, abortRef,
                   aborted, nRuns, runs, fn>>
    /\ obs' = ExpireObs

\* the depth select, page.tsx:449
SetDepth(d) ==
    /\ d # depth
    /\ depth' = d
    /\ UNCHANGED <<query, memoryContexts, memoryEnabled, activeContextIds, mounted,
                   isResearching, currentPhase, results, thoughts, abortRef,
                   aborted, nRuns, runs, fn>>
    /\ obs' = ExpireObs

\* setMemoryEnabled(m => !m), page.tsx:467
ToggleMemoryEnabled ==
    /\ memoryEnabled' = ~memoryEnabled
    /\ UNCHANGED <<query, depth, memoryContexts, activeContextIds, mounted,
                   isResearching, currentPhase, results, thoughts, abortRef,
                   aborted, nRuns, runs, fn>>
    /\ obs' = ExpireObs

\* the updater with the size test off by one
ToggledUpToSix(prev, id) ==
    IF id \in prev THEN prev \ {id}
    ELSE IF Cardinality(prev) <= 5 THEN prev \cup {id}
    ELSE prev

\* the updater of toggleContext, page.tsx:343-348: next.delete(id) if next has
\* id, else next.add(id) if next.size < 5
Toggled(prev, id) ==
    IF id \in prev THEN prev \ {id}
    ELSE IF Cardinality(prev) < 5 THEN prev \cup {id}
    ELSE prev

\* toggleContext, page.tsx:342-349; offered for the loaded contexts only
toggleContext(id) ==
    /\ id \in memoryContexts
    /\ activeContextIds' = Toggled(activeContextIds, id)
    /\ UNCHANGED <<query, depth, memoryContexts, memoryEnabled, mounted,
                   isResearching, currentPhase, results, thoughts, abortRef,
                   aborted, nRuns, runs, fn>>
    /\ obs' = ExpireObs

\* the Clear button, page.tsx:466
ClearMemory ==
    /\ memoryContexts' = {}
    /\ activeContextIds' = {}
    /\ UNCHANGED <<query, depth, memoryEnabled, mounted, isResearching,
                   currentPhase, results, thoughts, abortRef, aborted, nRuns,
                   runs, fn>>
    /\ obs' = ExpireObs

\* 'clear all', page.tsx:527; rendered while a context is active
ClearAllContexts ==
    /\ activeContextIds # {}
    /\ activeContextIds' = {}
    /\ UNCHANGED <<query, depth, memoryContexts, memoryEnabled, mounted,
                   isResearching, currentPhase, results, thoughts, abortRef,
                   aborted, nRuns, runs, fn>>
    /\ obs' = ExpireObs

\* what follows a started invocation, and the query and depth controls
Others ==
    \/ StopResearch
    \/ \E r \in RunIds, out \in GenOutputs : PassReturn(r, out)
    \/ \E r \in RunIds, out \in GenOutputs : SynthReturn(r, out)
    \/ \E r \in RunIds : GenFail(r)
    \/ \E r \in RunIds, ok \in BOOLEAN : SaveHistoryReturn(r, ok)
    \/ \E r \in RunIds, ok \in BOOLEAN : LoadHistoryReturn(r, ok)
    \/ \E q \in Queries : SetQuery(q)
    \/ \E d \in SelectableDepths : SetDepth(d)

\* startResearch, stopResearch and the completions of the calls they await,
\* with the memory panel left alone (memory off, no context selected)
Next == StartResearch \/ Others

Spec == Init /\ [][Next]_vars

\* the same, followed for one more invocation
NextOverlap == StartResearchUpTo(MaxOverlapRuns) \/ Others

SpecOverlap == Init /\ [][NextOverlap]_vars

\* the same as Next for MaxStopRuns invocations, with stopResearch also called
\* directly
NextStop == StartResearchUpTo(MaxStopRuns) \/ Others \/ StopResearchCall

SpecStop == Init /\ [][NextStop]_vars

\* the same with the memory panel in use, for at most MaxMemRuns invocations
NextMemory ==
    \/ StartResearchUpTo(MaxMemRuns)
    \/ StopResearch
    \/ \E r \in RunIds, out \in GenOutputs : PassReturn(r, out)
    \/ \E r \in RunIds, out \in GenOutputs : SynthReturn(r, out)
    \/ \E r \in RunIds : GenFail(r)
    \/ \E r \in RunIds, ok \in BOOLEAN : SaveHistoryReturn(r, ok)
    \/ \E r \in RunIds, ok \in BOOLEAN : SaveMemoryReturn(r, ok)
    \/ \E r \in RunIds, ok \in BOOLEAN, loaded \in SUBSET CtxIds :
           LoadMemoryReturn(r, ok, loaded)
    \/ \E r \in RunIds, ok \in BOOLEAN : LoadHistoryReturn(r, ok)
    \/ \E ok \in BOOLEAN, loaded \in SUBSET CtxIds : MountMemoryLoaded(ok, loaded)
    \/ \E q \in Queries : SetQuery(q)
    \/ \E d \in SelectableDepths : SetDepth(d)
    \/ ToggleMemoryEnabled
    \/ \E id \in CtxIds : toggleContext(id)
    \/ ClearMemory
    \/ ClearAllContexts

SpecMemory == Init /\ [][NextMemory]_vars

\* what a generation call returns under SpecPrompt: the empty text, one
\* character, one character more than the pass excerpt holds
PromptOutputs ==
    {<<>>, <<Seg("a", 1)>>, <<Seg("a", 1), Seg("a ", PassExcerptLength \div 2)>>}

\* the prompts of the passes: long outputs, the memory panel left alone
NextPrompt ==
    \/ StartResearchUpTo(MaxPromptRuns)
    \/ StopResearch
    \/ \E r \in RunIds, out \in PromptOutputs : PassReturn(r, out)
    \/ \E r \in RunIds, out \in PromptOutputs : SynthReturn(r, out)
    \/ \E r \in RunIds : GenFail(r)
    \/ \E r \in RunIds, ok \in BOOLEAN : SaveHistoryReturn(r, ok)
    \/ \E r \in RunIds, ok \in BOOLEAN : LoadHistoryReturn(r, ok)
    \/ \E q \in Queries : SetQuery(q)
    \/ \E d \in SelectableDepths : SetDepth(d)

SpecPrompt == Init /\ [][NextPrompt]_vars

\* the selection of memory contexts, with memory saving left off
NextSelect ==
    \/ StartResearchUpTo(MaxSelectRuns)
    \/ Others
    \/ \E ok \in BOOLEAN, loaded \in SUBSET CtxIds : MountMemoryLoaded(ok, loaded)
    \/ \E id \in CtxIds : toggleContext(id)
    \/ ClearMemory
    \/ ClearAllContexts

SpecSelect == Init /\ [][NextSelect]_vars

\* memory saving switched on and off, with no context selected
NextPersist ==
    \/ StartResearchUpTo(MaxPersistRuns)
    \/ Others
    \/ ToggleMemoryEnabled
    \/ \E r \in RunIds, ok \in BOOLEAN : SaveMemoryReturn(r, ok)
    \/ \E r \in RunIds, ok \in BOOLEAN, loaded \in SUBSET CtxIds :
           LoadMemoryReturn(r, ok, loaded)

SpecPersist == Init /\ [][NextPersist]_vars

\* scoring, with a memory context selected or not
NextScore ==
    \/ StartResearchUpTo(MaxScoreRuns)
    \/ Others
    \/ \E ok \in BOOLEAN, loaded \in SUBSET CtxIds : MountMemoryLoaded(ok, loaded)
    \/ \E id \in CtxIds : toggleContext(id)

SpecScore == Init /\ [][NextScore]_vars

\* the memory panel on its own, with more contexts loaded than can be active
NextToggle ==
    \/ \E ok \in BOOLEAN, loaded \in SUBSET ToggleCtxIds : MountMemoryLoaded(ok, loaded)
    \/ \E id \in ToggleCtxIds : toggleContext(id)
    \/ ClearMemory
    \/ ClearAllContexts

SpecToggle == Init /\ [][NextToggle]_vars

\* a run started with a selection made before an earlier run reloaded the
\* memory list; no run is stopped and every generation call returns
NextReload ==
    \/ StartResearchUpTo(MaxReloadRuns)
    \/ \E r \in RunIds, out \in GenOutputs : PassReturn(r, out)
    \/ \E r \in RunIds, out \in GenOutputs : SynthReturn(r, out)
    \/ \E r \in RunIds, ok \in BOOLEAN : SaveHistoryReturn(r, ok)
    \/ \E r \in RunIds, ok \in BOOLEAN : LoadHistoryReturn(r, ok)
    \/ \E q \in Queries : SetQuery(q)
    \/ \E d \in SelectableDepths : SetDepth(d)
    \/ \E ok \in BOOLEAN, loaded \in SUBSET CtxIds : MountMemoryLoaded(ok, loaded)
    \/ \E id \in CtxIds : toggleContext(id)
    \/ ToggleMemoryEnabled
    \/ \E r \in RunIds, ok \in BOOLEAN : SaveMemoryReturn(r, ok)
    \/ \E r \in RunIds, ok \in BOOLEAN, loaded \in SUBSET CtxIds :
           LoadMemoryReturn(r, ok, loaded)

SpecReload == Init /\ [][NextReload]_vars

\* startResearch called in every state, with queries of white space too
NextEntry ==
    \/ StartResearchUpTo(MaxEntryRuns)
    \/ StartResearchBlocked
    \/ Others
    \/ \E q \in BlankQueries : SetQuery(q)

SpecEntry == Init /\ [][NextEntry]_vars

\* the call invocation r awaits returns or fails
CallSettles(r) ==
    \/ \E out \in GenOutputs : PassReturn(r, out)
    \/ \E out \in GenOutputs : SynthReturn(r, out)
    \/ GenFail(r)
    \/ \E ok \in BOOLEAN : SaveHistoryReturn(r, ok)
    \/ \E ok \in BOOLEAN : LoadHistoryReturn(r, ok)

\* every awaited call settles in the end: the network answers or fails (memory
\* saving left off)
NextLive ==
    \/ StartResearchUpTo(MaxLiveRuns)
    \/ StopResearch
    \/ \E r \in RunIds : CallSettles(r)
    \/ \E q \in Queries : SetQuery(q)
    \/ \E d \in SelectableDepths : SetDepth(d)

SpecLive ==
    Init /\ [][NextLive]_vars /\ \A r \in 1..MaxLiveRuns : WF_vars(CallSettles(r))

----------------------------------------------------------------------------
(* The pure functions on their own: Init draws the arguments, the action    *)
(* applies the function.                                                    *)

WordSamples == {0, 1, 59, 60, 119, 120, MaxRepeat}

Markups == {<<>>, <<Seg("#", 1)>>, <<Seg("#", 2)>>, <<Seg("|", 1)>>}

\* w words each followed by a space, then e evidentiary phrases, then markup
AnswerOf(w, e, m) ==
    (IF w = 0 THEN <<>> ELSE <<Seg("a ", w)>>)
    \o (IF e = 0 THEN <<>> ELSE <<Seg("Data Shows", e)>>)
    \o m

ConfAnswers == {AnswerOf(w, e, m) : w \in WordSamples, e \in 0..MaxCount, m \in Markups}

\* depth values: the select's options and strings it never offers
DepthInputs == DepthOptions \cup {"", "Standard", "ultra", "constructor", "toString"}

InitFn ==
    /\ query = ""
    /\ depth = "standard"
    /\ isResearching = FALSE
    /\ currentPhase = ""
    /\ results = <<>>
    /\ memoryContexts = {}
    /\ memoryEnabled = FALSE
    /\ activeContextIds = {}
    /\ thoughts = <<>>
    /\ abortRef = 0
    /\ aborted = {}
    /\ mounted = FALSE
    /\ nRuns = 0
    /\ runs = [r \in RunIds |-> IdleRun]
    /\ obs = [r \in RunIds |-> NoObs]
    /\ \/ \E a \in ConfAnswers, n \in 0..MaxCount, d \in 0..MaxCount, m \in BOOLEAN :
              fn = [FnIdle EXCEPT !.op = "computeConfidence", !.answer = a,
                                  !.numPasses = n, !.docChunks = d, !.hasMem = m]
       \/ \E d \in DepthInputs :
              fn = [FnIdle EXCEPT !.op = "numPasses", !.depth = d]

ApplyConfidence ==
    /\ fn.op = "computeConfidence"
    /\ ~fn.done
    /\ fn' = [fn EXCEPT !.done = TRUE,
                        !.conf = computeConfidence(fn.answer, fn.numPasses,
                                                   fn.docChunks, fn.hasMem)]
    /\ UNCHANGED <<query, depth, isResearching, currentPhase, results,
                   memoryContexts, memoryEnabled, activeContextIds, thoughts,
                   abortRef, aborted, mounted, nRuns, runs, obs>>

ApplyNumPasses ==
    /\ fn.op = "numPasses"
    /\ ~fn.done
    /\ fn' = [fn EXCEPT !.done = TRUE, !.passes = ResolveNumPasses(fn.depth)]
    /\ UNCHANGED <<query, depth, isResearching, currentPhase, results,
                   memoryContexts, memoryEnabled, activeContextIds, thoughts,
                   abortRef, aborted, mounted, nRuns, runs, obs>>

NextFn == ApplyConfidence \/ ApplyNumPasses

SpecFn == InitFn /\ [][NextFn]_vars

----------------------------------------------------------------------------
(* Claims *)

\* obs[r] holds the history of invocation r (it is active, or it ended in the
\* step that led to this state)
Observed(r) == obs[r].numPasses > 0

Persisting(r) == runs[r].pc \in {"saveHistory", "saveMemory", "loadMemory", "loadHistory"}

ResultsOf(r) == {k \in 1..Len(results) : results[k].run = r}

C2_StopInLoopSilent ==
    \A r \in RunIds :
        obs[r].stop = "loop" => obs[r].nResults = 0 /\ obs[r].nErrors = 0

\* C3: a run whose generation call failed (no cancellation) has ended, its
\* ERROR event is the one event it appended for the failure, it has produced
\* no result and dispatched no call after the failure.
C3_FailureReportedOnce ==
    \A r \in RunIds :
        obs[r].failed =>
            /\ runs[r].pc = "done"
            /\ obs[r].nErrors = 1
            /\ Len(thoughts) > 0
            /\ thoughts[Len(thoughts)] = Thought("ERROR", 0, r)
            /\ obs[r].nResults = 0
            /\ ResultsOf(r) = {}
            /\ ~obs[r].callAfterFail

\* the synthesis call of a run has just failed
C3_Witness ==
    \E r \in RunIds :
        obs[r].failed /\ obs[r].synth /\ obs[r].nErrors = 1 /\ runs[r].pc = "done"

\* C4: at most one invocation of startResearch is active at any time.
C4_AtMostOneActive == Cardinality({r \in RunIds : Active(r)}) <= 1

\* C5: no two generation calls are in flight at the same time.
C5_OneCallInFlight == Cardinality({r \in RunIds : InFlight(r)}) <= 1

\* C6 as stated: a run whose calls all returned without error and during which
\* stopResearch was not called has produced exactly one result and one
\* COMPLETE event.
C6_Original ==
    \A r \in RunIds :
        (/\ Observed(r)
         /\ Persisting(r) \/ runs[r].pc = "done"
         /\ ~obs[r].failed
         /\ obs[r].stop = "none") =>
            /\ obs[r].nResults = 1
            /\ obs[r].nComplete = 1

\* C6 amended: the same for the runs whose final answer is not the empty text;
\* no run produces more than one result or COMPLETE event.
C6_OneResultPerSuccessfulRun ==
    \A r \in RunIds :
        /\ obs[r].nResults <= 1
        /\ obs[r].nComplete <= 1
        /\ (/\ Observed(r)
            /\ Persisting(r) \/ runs[r].pc = "done"
            /\ ~obs[r].failed
            /\ obs[r].stop = "none"
            /\ ~obs[r].finalEmpty) =>
               /\ obs[r].nResults = 1
               /\ obs[r].nComplete = 1
               /\ Cardinality(ResultsOf(r)) = 1

\* a three-pass run has ended with its one result, never stopped
C6_Witness ==
    \E r \in RunIds :
        /\ runs[r].pc = "done"
        /\ obs[r].synth
        /\ ~obs[r].failed
        /\ obs[r].stop = "none"
        /\ obs[r].nResults = 1
        /\ Cardinality(ResultsOf(r)) = 1

\* C7: every result in results has a non-empty answer.
C7_AnswerNonEmpty == \A k \in 1..Len(results) : results[k].answer # <<>>

\* a run has just ended on an empty final answer while an earlier result is shown
C7_Witness ==
    /\ Len(results) > 0
    /\ \E r \in RunIds : obs[r].finalEmpty /\ runs[r].pc = "done"

\* C8: computeConfidence returns an integer from 22 to 97.
C8_ConfidenceRange ==
    (fn.op = "computeConfidence" /\ fn.done) => fn.conf \in 22..97

\* computeConfidence was applied to arguments whose sum the upper limit cuts
C8_Witness ==
    /\ fn.op = "computeConfidence"
    /\ fn.done
    /\ fn.conf = 97
    /\ fn.numPasses = MaxCount
    /\ fn.hasMem

\* C9: the pass count is 1, 3, 5, 8 for quick, standard, deep, exhaustive and
\* 3 for every other depth value.
C9_PassCountMapping ==
    (fn.op = "numPasses" /\ fn.done) =>
        fn.passes = CASE fn.depth = "quick" -> Num(1)
                      [] fn.depth = "standard" -> Num(3)
                      [] fn.depth = "deep" -> Num(5)
                      [] fn.depth = "exhaustive" -> Num(8)
                      [] OTHER -> Num(3)

\* C10: a run that a stopResearch call found awaiting its synthesis call adds
\* no result and appends no ERROR event.
C10_StopInSynthesisSilent ==
    \A r \in RunIds :
        obs[r].stop = "synth" => obs[r].nResults = 0 /\ obs[r].nErrors = 0

\* C11: a direct call of stopResearch raises no error; with no invocation
\* active (none started yet, or all ended) it leaves results and thoughts as they
\* were; a second call right after it leaves the state the first call left.
C11_StopIdempotent ==
    fn.op = "stopResearch" =>
        /\ ~fn.threw
        /\ fn.again
        /\ fn.idle => fn.kept

\* stopResearch was called after an invocation had ended with a result, none
\* being active
C11_Witness ==
    /\ fn.op = "stopResearch"
    /\ fn.idle
    /\ nRuns > 0
    /\ Len(results) > 0
    /\ Len(thoughts) > 0

\* C12: a run of which persistence calls failed keeps its result in results,
\* has appended no ERROR event, went on to its next step after each failure,
\* and has isResearching false when it has ended.
C12_PersistenceFailureHarmless ==
    \A r \in RunIds :
        obs[r].nPersistFailed > 0 =>
            /\ obs[r].nResults = 1
            /\ Cardinality(ResultsOf(r)) = 1
            /\ obs[r].nErrors = 0
            /\ \A k \in 1..Len(thoughts) :
                   ~(thoughts[k].type = "ERROR" /\ thoughts[k].run = r)
            /\ Persisting(r) \/ runs[r].pc = "done"
            /\ runs[r].pc = "done" => ~isResearching /\ currentPhase = ""

\* a run with memory enabled has ended after all four persistence calls failed
C12_Witness ==
    \E r \in RunIds :
        /\ runs[r].pc = "done"
        /\ obs[r].nPersistFailed = 4
        /\ Len(results) = 1

\* number of characters of a text
RECURSIVE TextLenUpTo(_, _)
TextLenUpTo(text, k) ==
    IF k = 0 THEN 0 ELSE text[k].n * TokLen(text[k].tok) + TextLenUpTo(text, k - 1)

TextLen(text) == TextLenUpTo(text, Len(text))

\* character c of a token
CharOf(tok, c) ==
    CASE tok = "a " -> (IF c = 1 THEN "a" ELSE " ")
      [] tok = "##" -> "#"
      [] TokLen(tok) > 2 -> "?"
      [] OTHER -> tok

\* character pos of a text, looked for from segment k on
RECURSIVE CharFrom(_, _, _)
CharFrom(text, k, pos) ==
    LET len == TokLen(text[k].tok)
        span == text[k].n * len
    IN  IF pos <= span THEN CharOf(text[k].tok, ((pos - 1) % len) + 1)
        ELSE CharFrom(text, k + 1, pos - span)

\* p is the first min(n, length of t) characters of t
IsCutOf(p, t, n) ==
    /\ TextLen(p) = Min(n, TextLen(t))
    /\ \A pos \in 1..TextLen(p) : CharFrom(p, 1, pos) = CharFrom(t, 1, pos)

\* C13: the user prompt of the pass call in flight for index i holds, in the
\* order of the passes, the first 500 characters of each of the outputs of
\* passes 0..i-1, and no previous-passes block when i = 0.
C13_PromptCarriesPreviousPasses ==
    \A r \in RunIds :
        runs[r].pc = "pass" =>
            /\ runs[r].usr.kind = "pass"
            /\ Len(runs[r].passResults) = runs[r].i
            /\ Len(runs[r].usr.prev) = runs[r].i
            /\ \A j \in 1..runs[r].i :
                   IsCutOf(runs[r].usr.prev[j], runs[r].passResults[j], 500)

\* the third pass is in flight; the first pass's output was longer than 500
\* characters and is cut, the second one's is short and whole
C13_Witness ==
    \E r \in RunIds :
        /\ runs[r].pc = "pass"
        /\ runs[r].i = 2
        /\ TextLen(runs[r].passResults[1]) > 500
        /\ TextLen(runs[r].usr.prev[1]) = 500
        /\ runs[r].usr.prev[2] = runs[r].passResults[2]
        /\ TextLen(runs[r].usr.prev[2]) = 1

\* C14: the block an invocation builds at its start is empty exactly when no
\* selected context is among the loaded ones; otherwise it has one entry for each
\* selected loaded context, with the context's whole query and the first 600
\* characters of its answer.
C14_MemoryBlockContents ==
    [][\A r \in RunIds :
          (runs[r].pc = "idle" /\ runs'[r].pc # "idle") =>
              LET sel == activeContextIds \cap memoryContexts
                  block == runs'[r].memSection
              IN  /\ block = {} <=> sel = {}
                  /\ {e.id : e \in block} = sel
                  /\ Cardinality(block) = Cardinality(sel)
                  /\ \A e \in block :
                         /\ e.query = CtxQuery(e.id)
                         /\ IsCutOf(e.answer, CtxAnswer(e.id), 600)]_vars

\* an invocation runs with a block whose entry holds 600 characters of an
\* answer that is longer, next to a query that is longer than that and whole
C14_Witness ==
    \E r \in RunIds :
        /\ InFlight(r)
        /\ \E e \in runs[r].memSection :
               /\ TextLen(e.answer) = 600
               /\ TextLen(CtxAnswer(e.id)) > 600
               /\ TextLen(e.query) > 600

\* C15: the prompt of every pass call and of the synthesis call in flight
\* carries the memory block the invocation built at its start, and that block
\* does not change while the invocation is active, whatever the selection
\* has become.
C15_MemoryBlockFixedForRun ==
    [][\A r \in RunIds :
          /\ runs'[r].pc \in {"pass", "synth"} =>
                 runs'[r].usr.mem = runs'[r].memSection
          /\ (Active(r) /\ runs'[r].pc \notin {"idle", "done"}) =>
                 runs'[r].memSection = runs[r].memSection]_vars

\* the synthesis call of an invocation that started with a selected context is
\* in flight after the selection has been cleared
C15_Witness ==
    \E r \in RunIds :
        /\ runs[r].pc = "synth"
        /\ runs[r].usr.mem # {}
        /\ activeContextIds = {}
        /\ buildMemorySection = {}

\* computeConfidence on the arguments of the call made, with hasMem false
WithoutMemory == computeConfidence(fn.answer, fn.numPasses, fn.docChunks, FALSE)

\* C16 as stated: computeConfidence with hasMem true returns exactly 5 more
\* than with hasMem false on the same other arguments.
C16_Original ==
    (fn.op = "computeConfidence" /\ fn.done /\ fn.hasMem) =>
        fn.conf = WithoutMemory + 5

\* C16 amended: with hasMem true it returns the smaller of 97 and 5 more than
\* with hasMem false; exactly 5 more when the value with hasMem false is at
\* most 92.
C16_MemoryBonusUpToClamp ==
    (fn.op = "computeConfidence" /\ fn.done /\ fn.hasMem) =>
        /\ fn.conf = Min(97, WithoutMemory + 5)
        /\ WithoutMemory <= 92 => fn.conf = WithoutMemory + 5

\* computeConfidence was called with hasMem true on arguments that give 93 to
\* 96 without it, and returned 97
C16_Witness ==
    /\ fn.op = "computeConfidence"
    /\ fn.done
    /\ fn.hasMem
    /\ WithoutMemory \in 93..96
    /\ fn.conf = 97

\* C17: a run that has produced a result completed all its passes, its pass
\* loop ended without cancellation, it made the synthesis call when its pass
\* count is above 1, and the result's confidence is computeConfidence of the
\* answer with the pass count as completed-pass count.
C17_ResultFromAllPasses ==
    \A r \in RunIds :
        obs[r].nResults > 0 =>
            /\ obs[r].completed = obs[r].numPasses
            /\ obs[r].loopEnd = "clean"
            /\ obs[r].numPasses > 1 => obs[r].synth
            /\ Persisting(r) =>
                   \A k \in ResultsOf(r) :
                       results[k].confidence =
                           computeConfidence(results[k].answer, obs[r].numPasses, 0,
                                             runs[r].hasMem)

\* a three-pass run has published its result and is saving it
C17_Witness ==
    \E r \in RunIds :
        /\ runs[r].pc = "saveHistory"
        /\ obs[r].nResults = 1
        /\ obs[r].numPasses = 3
        /\ obs[r].completed = 3
        /\ ResultsOf(r) # {}

\* C18: a run that a stopResearch call found in its pass loop or awaiting its
\* synthesis call dispatches no generation call and appends no event after it.
C18_NothingAfterStop ==
    \A r \in RunIds :
        obs[r].stop \in {"loop", "synth"} => ~obs[r].late

C20_CallsSequentialAndBounded ==
    \A r \in RunIds :
        /\ obs[r].nCalls <= obs[r].numPasses + 1
        /\ runs[r].pc = "pass" =>
               /\ Len(runs[r].passResults) = runs[r].i
               /\ obs[r].nCalls = runs[r].i + 1
               /\ runs[r].i < obs[r].numPasses
        /\ runs[r].pc = "synth" =>
               /\ Len(runs[r].passResults) = obs[r].numPasses
               /\ obs[r].nCalls = obs[r].numPasses + 1
        /\ obs[r].nResults > 0 =>
               obs[r].nCalls = IF obs[r].numPasses = 1 THEN 1 ELSE obs[r].numPasses + 1

\* a three-pass run has ended with a result after four calls while the result
\* of a one-call run is shown
C20_Witness ==
    \E r \in RunIds :
        /\ runs[r].pc = "done"
        /\ obs[r].nResults = 1
        /\ obs[r].nCalls = 4
        /\ \E k \in 1..Len(results) : results[k].depth = "quick"

\* the event at place k of the pass events of invocation r: the label of pass
\* (k + 1) / 2 at an odd place, that pass's completion at the even place after it
PassEvent(k, r) ==
    IF k % 2 = 1 THEN Thought(PassLabel((k - 1) \div 2), (k + 1) \div 2, r)
    ELSE Thought("PASS COMPLETE", k \div 2, r)

\* what may follow the pass events of a log
LogTails == {<<>>, <<"SYNTHESIS">>, <<"COMPLETE">>, <<"ERROR">>,
             <<"SYNTHESIS", "COMPLETE">>, <<"SYNTHESIS", "ERROR">>}

\* the log holds the events of one invocation: INITIALIZE, MEMORY RETRIEVAL at
\* the second place or nowhere, the pass events in ascending order, and then at
\* most SYNTHESIS and one closing event
LogInOrder ==
    thoughts # <<>> =>
        LET r == thoughts[1].run
            h == IF Len(thoughts) >= 2 /\ thoughts[2].type = "MEMORY RETRIEVAL"
                 THEN 2 ELSE 1
            body == SubSeq(thoughts, h + 1, Len(thoughts))
        IN  /\ thoughts[1].type = "INITIALIZE"
            /\ \A k \in 1..Len(thoughts) : thoughts[k].run = r
            /\ \E m \in 0..Len(body) :
                   /\ \A k \in 1..m : body[k] = PassEvent(k, r)
                   /\ [k \in 1..(Len(body) - m) |-> body[m + k].type] \in LogTails
            /\ \A q \in RunIds :
                   runs[q].pc = "pass" =>
                       /\ q = r
                       /\ thoughts[Len(thoughts)] =
                              Thought(PassLabel(runs[q].i), runs[q].i + 1, q)

\* one step of the log: left alone, appended to, or started anew by the
\* invocation that starts, with MEMORY RETRIEVAL iff a context is active
LogStep ==
    \/ thoughts' = thoughts
    \/ /\ nRuns' = nRuns
       /\ Len(thoughts') > Len(thoughts)
       /\ SubSeq(thoughts', 1, Len(thoughts)) = thoughts
    \/ /\ nRuns' = nRuns + 1
       /\ thoughts'[1].type = "INITIALIZE"
       /\ thoughts'[1].run = nRuns'
       /\ activeContextIds # {} <=>
              (Len(thoughts') >= 2 /\ thoughts'[2].type = "MEMORY RETRIEVAL")

\* C21: the thought log is started anew when a run starts and is only appended
\* to afterwards; it holds INITIALIZE first, MEMORY RETRIEVAL next iff a memory
\* context is active at the start, then for each pass in ascending order its
\* label (appended before the pass's call is dispatched) and its PASS COMPLETE
\* (appended when the call has returned); a COMPLETE event is the last one.
C21_LogOrder == [][LogInOrder' /\ LogStep]_vars

\* C22: the confidence of a result is computeConfidence of its answer, the
\* number of passes the run completed, 0 documents and the run's memory flag;
\* the COMPLETE event shows that value; a run has appended COMPLETE exactly when
\* it has produced a result, and never both COMPLETE and ERROR.
C22_ConfidenceOfResult ==
    \A r \in RunIds :
        /\ obs[r].nComplete = obs[r].nResults
        /\ ~(obs[r].nComplete > 0 /\ obs[r].nErrors > 0)
        /\ Persisting(r) =>
               \A k \in ResultsOf(r) :
                   /\ results[k].confidence =
                          computeConfidence(results[k].answer, obs[r].completed, 0,
                                            runs[r].hasMem)
                   /\ \A j \in 1..Len(thoughts) :
                          (thoughts[j].type = "COMPLETE" /\ thoughts[j].run = r) =>
                              thoughts[j].n = results[k].confidence

\* a run that started with a context selected has published the result of its
\* three passes and shows its COMPLETE event
C22_Witness ==
    \E r \in RunIds :
        /\ runs[r].pc = "saveHistory"
        /\ runs[r].hasMem
        /\ obs[r].completed = 3
        /\ obs[r].nComplete = 1
        /\ ResultsOf(r) # {}
        /\ thoughts[Len(thoughts)] =
               Thought("COMPLETE",
                       computeConfidence(<<Seg("a", 1)>>, 3, 0, TRUE), r)

\* a step of an invocation that awaits a generation call is the call's return,
\* its failure or a cancellation
OnlyTheCallResumes ==
    \A r \in RunIds :
        (InFlight(r) /\ runs'[r] # runs[r]) =>
            \/ runs[r].sig \in aborted'
            \/ obs'[r].failed
            \/ obs'[r].nReturned = obs[r].nReturned + 1

\* C23: when every awaited call settles in the end, every started run ends, in
\* a state with isResearching false and currentPhase empty; a run awaiting a
\* generation call takes no step but the call's return, its failure or a
\* cancellation.
C23_RunsTerminate ==
    /\ \A r \in 1..MaxLiveRuns :
           Active(r) ~> (runs[r].pc = "done" /\ ~isResearching /\ currentPhase = "")
    /\ [][OnlyTheCallResumes]_vars

\* a run has ended on the failure of a later pass's call, with the phase
\* display emptied
C23_Witness ==
    \E r \in RunIds :
        /\ runs[r].pc = "done"
        /\ obs[r].failed
        /\ ~obs[r].synth
        /\ Len(thoughts) >= 4
        /\ ~isResearching
        /\ currentPhase = ""

\* only controllers of invocations that have started are aborted, and the
\* signal a generation call in flight was given is the one its invocation
\* made, not aborted
SignalIsOwn ==
    /\ aborted \subseteq 1..nRuns
    /\ \A r \in RunIds : InFlight(r) => (runs[r].sig = r /\ r \notin aborted)

\* C24: an invocation that starts makes a controller of its own, whose signal
\* is not aborted whatever stopResearch calls came before, and dispatches its
\* first pass with it; every generation call in flight carries the signal of
\* the controller its invocation made.
C24_FreshSignal ==
    [][/\ SignalIsOwn'
       /\ nRuns' = nRuns + 1 =>
              /\ abortRef' = nRuns'
              /\ abortRef' \notin aborted'
              /\ aborted' = aborted
              /\ runs'[nRuns'].pc = "pass"
              /\ runs'[nRuns'].sig = nRuns']_vars

\* C25: at most 5 contexts are active; toggleContext on a context that is not
\* active leaves the selection as it is when 5 are active and adds the context
\* otherwise, and toggleContext on an active context removes it.
C25_AtMostFiveActive ==
    /\ Cardinality(activeContextIds) <= 5
    /\ \A id \in memoryContexts :
           LET next == Toggled(activeContextIds, id)
           IN  /\ id \in activeContextIds => next = activeContextIds \ {id}
               /\ (id \notin activeContextIds /\ Cardinality(activeContextIds) = 5) =>
                      next = activeContextIds
               /\ (id \notin activeContextIds /\ Cardinality(activeContextIds) < 5) =>
                      next = activeContextIds \cup {id}

\* five contexts are active and a sixth one is offered
C25_Witness ==
    /\ Cardinality(activeContextIds) = 5
    /\ memoryContexts \ activeContextIds # {}

\* C26: while the trimmed query is empty or isResearching is true no invocation
\* starts: no controller is made and the log is not cleared; a call of
\* startResearch that returns at its entry guard leaves the log, the results,
\* the controllers and every invocation's position (so the calls in flight) as
\* they were.
C26_BlockedStartIsNoOp ==
    [][/\ (Trim(query) = "" \/ isResearching) =>
              /\ nRuns' = nRuns
              /\ abortRef' = abortRef
              /\ thoughts' = <<>> => thoughts = <<>>
       /\ (fn' # fn /\ fn'.op = "startResearch") =>
              /\ Trim(fn'.query) = "" \/ fn'.researching
              /\ fn'.query = query /\ fn'.researching = isResearching
              /\ thoughts' = thoughts
              /\ results' = results
              /\ abortRef' = abortRef
              /\ aborted' = aborted
              /\ runs' = runs
              /\ nRuns' = nRuns
              /\ isResearching' = isResearching]_vars

\* startResearch was called with a query of white space after a run had ended,
\* and the log of that run is still there
C26_Witness ==
    /\ fn.op = "startResearch"
    /\ fn.query = " "
    /\ ~fn.researching
    /\ query = " "
    /\ nRuns = 1
    /\ runs[1].pc = "done"
    /\ Len(thoughts) > 0
    /\ abortRef = 1

\* C27: an invocation that treats memory as active (hasMem: it has appended
\* MEMORY RETRIEVAL and will score with the memory bonus) has a non-empty
\* memory block, and every active context id is the id of a loaded context.
C27_ActiveMemoryIsInjected ==
    /\ \A r \in RunIds : (Active(r) /\ runs[r].hasMem) => runs[r].memSection # {}
    /\ activeContextIds \subseteq memoryContexts

\* C28: an invocation has called apiSaveHistory once for the result it has
\* produced and not at all when it has produced none (cancelled or failed
\* before); it has called apiSaveMemory at most once, only after producing a
\* result and only when memoryEnabled was true when it started.
C28_SavesFollowResult ==
    \A r \in RunIds :
        /\ obs[r].nSaveHistory = obs[r].nResults
        /\ obs[r].nResults <= 1
        /\ obs[r].nSaveMemory <= 1
        /\ obs[r].nSaveMemory > 0 => (obs[r].nResults = 1 /\ obs[r].memAtStart)
        /\ runs[r].pc = "saveMemory" => obs[r].nSaveMemory = 1
        /\ (obs[r].failed \/ obs[r].loopEnd = "aborted") =>
               (obs[r].nSaveHistory = 0 /\ obs[r].nSaveMemory = 0)

\* a run that started with memory on is saving to memory after memory was
\* switched off
C28_Witness ==
    \E r \in RunIds :
        /\ runs[r].pc = "saveMemory"
        /\ obs[r].memAtStart
        /\ ~memoryEnabled
        /\ obs[r].nSaveHistory = 1
        /\ obs[r].nSaveMemory = 1

\* computeConfidence was applied to the empty text, no pass, no document and
\* no memory
EmptyInput ==
    /\ fn.op = "computeConfidence"
    /\ fn.done
    /\ fn.answer = <<>>
    /\ fn.numPasses = 0
    /\ fn.docChunks = 0
    /\ ~fn.hasMem

\* C29 as stated: for the empty answer with zero completed passes, zero
\* documents and no memory, computeConfidence returns 22.
C29_Original == EmptyInput => fn.conf = 22

\* C29 amended: for the empty answer with zero completed passes, zero
\* documents and no memory, computeConfidence returns the base score 45; with
\* counts that are not negative it never returns less than 45, so the lower
\* limit 22 is not what it returns.
C29_EmptyAnswerScoresBase ==
    /\ EmptyInput => fn.conf = 45
    /\ (fn.op = "computeConfidence" /\ fn.done) => fn.conf >= 45

\* computeConfidence has returned 45 for the empty text
C29_Witness == EmptyInput /\ fn.conf = 45 /\ SplitLength(fn.answer) = 1

====
